---- MODULE Spec2Model ----
(***************************************************************************)
(* Rapid Response Agent System: the scoring, conflict-resolution and       *)
(* routing core of src/src/rapid_response_system.py as a state machine.    *)
(*                                                                         *)
(* Strings the code searches (titles, contents, keywords) are sequences of *)
(* one-character strings, so that str.lower() and the `in` substring test  *)
(* are computed, not assumed.  Wall-clock time is counted in ticks of      *)
(* 1/TicksPerSecond seconds; every datetime.now() / time.time() call is a  *)
(* separate reading of the clock.  A title or content is held in the state *)
(* by the name of its text; Chars gives its characters.                    *)
(***************************************************************************)
EXTENDS Integers, Sequences, FiniteSets, TLC

VARIABLES
    clock,            \* the wall clock, in ticks: the last reading taken
    issues,           \* every Issue constructed so far, in creation order
    decision_history, \* MAIScoringAgent.decision_history
    score_call,       \* latest calculate_full_mai_score call: <<>> or <<[issue, replies, result]>>
    detect_call,      \* latest detect_channel_conflict call: <<>> or <<[issue, now, result]>>
    assess_call,      \* latest direct _assess_conflict_severity call
    resolve_call,     \* latest execute_lightning_protocol call: <<>> or <<[conflict, result]>>
    route_calls,      \* every route_issue call so far: set of [issue, score, decision]
    pc,               \* position of run_full_cycle: "idle" when no cycle is running
    detected_issues,  \* run_full_cycle: the list the monitor returned
    idx,              \* run_full_cycle: index of the issue the loop is at
    mai_score,        \* run_full_cycle: local mai_score, <<>> or <<score>>
    conflict,         \* run_full_cycle: local conflict, <<>> (None) or <<conflict>>
    cycle_results,    \* run_full_cycle: the report being built
    report            \* the value the last run_full_cycle returned, <<>> or <<report>>

vars == <<clock, issues, decision_history, score_call, detect_call, assess_call,
          resolve_call, route_calls, pc, detected_issues, idx, mai_score,
          conflict, cycle_results, report>>

----------------------------------------------------------------------------
(* Bounds of the model *)

\* clock resolution: ticks per second
TicksPerSecond == 2
\* the largest number of ticks that pass before one clock reading
MaxElapsed == 1
\* the clock is not read past StartClock + MaxClock
MaxClock == 1
\* a caller constructs at most this many Issue objects
MaxIssues == 2
\* a caller makes at most this many calculate_full_mai_score calls
MaxHistory == 1
\* a caller makes at most this many route_issue calls
MaxRoutes == 2
\* the collaborator's integers range over -ReplyMargin .. 15 + ReplyMargin
ReplyMargin == 1

Second == TicksPerSecond
Minute == 60 * Second
Hour == 60 * Minute
\* the first reading is the last tick of a second
StartClock == 12 * Hour + (TicksPerSecond - 1)

----------------------------------------------------------------------------
(* Strings *)

UpperCase == <<"A","B","C","D","E","F","G","H","I","J","K","L","M",
               "N","O","P","Q","R","S","T","U","V","W","X","Y","Z">>
LowerCase == <<"a","b","c","d","e","f","g","h","i","j","k","l","m",
               "n","o","p","q","r","s","t","u","v","w","x","y","z">>

\* str.lower() on one character
LowerChar(c) ==
    IF \E k \in 1..26 : UpperCase[k] = c
    THEN LowerCase[CHOOSE k \in 1..26 : UpperCase[k] = c]
    ELSE c

\* str.lower()
Lower(s) == [k \in 1..Len(s) |-> LowerChar(s[k])]

\* `needle in haystack` for str
Contains(haystack, needle) ==
    \E k \in 0..(Len(haystack) - Len(needle)) :
        \A j \in 1..Len(needle) : haystack[k + j] = needle[j]

\* sum(1 for keyword in keywords if keyword in text)
CountMatches(keywords, text) ==
    Cardinality({k \in 1..Len(keywords) : Contains(text, keywords[k])})

Min(a, b) == IF a <= b THEN a ELSE b
Max(a, b) == IF a >= b THEN a ELSE b
Abs(a) == IF a >= 0 THEN a ELSE 0 - a

\* MAIScoringAgent._fallback_mission_score: keywords
kw_privacy ==
    <<"p","r","i","v","a","c","y">>
kw_security ==
    <<"s","e","c","u","r","i","t","y">>
kw_rights ==
    <<"r","i","g","h","t","s">>
kw_accessibility ==
    <<"a","c","c","e","s","s","i","b","i","l","i","t","y">>
kw_ethics ==
    <<"e","t","h","i","c","s">>

keywords == <<kw_privacy, kw_security, kw_rights, kw_accessibility, kw_ethics>>

\* MonitorAgent.__init__: self.keywords
mk_privacy_breach ==
    <<"p","r","i","v","a","c","y"," ","b","r","e","a","c","h">>
mk_security_vulnerability ==
    <<"s","e","c","u","r","i","t","y"," ","v","u","l","n","e","r","a","b","i",
      "l","i","t","y">>
mk_data_leak ==
    <<"d","a","t","a"," ","l","e","a","k">>
mk_ai_ethics ==
    <<"a","i"," ","e","t","h","i","c","s">>
mk_platform_accountability ==
    <<"p","l","a","t","f","o","r","m"," ","a","c","c","o","u","n","t","a","b",
      "i","l","i","t","y">>
mk_digital_rights ==
    <<"d","i","g","i","t","a","l"," ","r","i","g","h","t","s">>
mk_accessibility ==
    <<"a","c","c","e","s","s","i","b","i","l","i","t","y">>
mk_open_source ==
    <<"o","p","e","n"," ","s","o","u","r","c","e">>
mk_regulation ==
    <<"r","e","g","u","l","a","t","i","o","n">>

monitor_keywords ==
    <<mk_privacy_breach, mk_security_vulnerability, mk_data_leak, mk_ai_ethics,
      mk_platform_accountability, mk_digital_rights, mk_accessibility,
      mk_open_source, mk_regulation>>

\* MonitorAgent.simulate_web_monitoring: sample_issues
sample1_title ==
    <<"M","a","j","o","r"," ","s","o","c","i","a","l"," ","m","e","d","i","a",
      " ","p","l","a","t","f","o","r","m"," ","c","h","a","n","g","e","s"," ",
      "p","r","i","v","a","c","y"," ","p","o","l","i","c","y"," ","w","i","t",
      "h","o","u","t"," ","u","s","e","r"," ","n","o","t","i","c","e">>
sample1_content ==
    <<"P","l","a","t","f","o","r","m"," ","u","p","d","a","t","e","d"," ","t",
      "e","r","m","s"," ","t","o"," ","a","l","l","o","w"," ","b","r","o","a",
      "d","e","r"," ","d","a","t","a"," ","s","h","a","r","i","n","g"," ","w",
      "i","t","h"," ","t","h","i","r","d"," ","p","a","r","t","i","e","s",",",
      " ","a","f","f","e","c","t","i","n","g"," ","2"," ","b","i","l","l","i",
      "o","n"," ","u","s","e","r","s"," ","g","l","o","b","a","l","l","y",
      ".">>
sample2_title ==
    <<"N","e","w"," ","A","I"," ","m","o","d","e","l"," ","s","h","o","w","s",
      " ","c","o","n","c","e","r","n","i","n","g"," ","b","i","a","s"," ","i",
      "n"," ","h","i","r","i","n","g"," ","r","e","c","o","m","m","e","n","d",
      "a","t","i","o","n","s">>
sample2_content ==
    <<"R","e","s","e","a","r","c","h"," ","r","e","v","e","a","l","s"," ","A",
      "I"," ","h","i","r","i","n","g"," ","t","o","o","l"," ","c","o","n","s",
      "i","s","t","e","n","t","l","y"," ","r","e","c","o","m","m","e","n","d",
      "s"," ","m","a","l","e"," ","c","a","n","d","i","d","a","t","e","s"," ",
      "o","v","e","r"," ","e","q","u","a","l","l","y"," ","q","u","a","l","i",
      "f","i","e","d"," ","f","e","m","a","l","e"," ","c","a","n","d","i","d",
      "a","t","e","s",".">>
sample3_title ==
    <<"G","o","v","e","r","n","m","e","n","t"," ","p","r","o","p","o","s","e",
      "s"," ","n","e","w"," ","i","n","t","e","r","n","e","t"," ","r","e","g",
      "u","l","a","t","i","o","n"," ","f","r","a","m","e","w","o","r","k">>
sample3_content ==
    <<"P","r","o","p","o","s","e","d"," ","l","e","g","i","s","l","a","t","i",
      "o","n"," ","w","o","u","l","d"," ","r","e","q","u","i","r","e"," ","p",
      "l","a","t","f","o","r","m","s"," ","t","o"," ","i","m","p","l","e","m",
      "e","n","t"," ","c","o","n","t","e","n","t"," ","f","i","l","t","e","r",
      "i","n","g",","," ","r","a","i","s","i","n","g"," ","f","r","e","e"," ",
      "e","x","p","r","e","s","s","i","o","n"," ","c","o","n","c","e","r","n",
      "s",".">>

sample_issues ==
    << [title |-> "sample1_title", content |-> "sample1_content",
        source |-> "Privacy Watch Blog", urgency |-> "high"],
       [title |-> "sample2_title", content |-> "sample2_content",
        source |-> "AI Ethics Journal", urgency |-> "medium"],
       [title |-> "sample3_title", content |-> "sample3_content",
        source |-> "Tech Policy News", urgency |-> "medium"] >>

\* Texts a caller constructs Issues from
txt_mixed_title ==
    <<"P","r","i","v","a","c","y"," ","a","n","d"," ","S","E","C","U","R","I",
      "T","Y">>
txt_mixed_content ==
    <<"D","i","g","i","t","a","l"," ","R","i","g","h","t","s">>
txt_plain_title ==
    <<"O","u","t","a","g","e">>
txt_plain_content ==
    <<"N","o"," ","c","o","m","m","e","n","t"," ","y","e","t">>
txt_split_title ==
    <<"p","r","i","v">>
txt_split_content ==
    <<"a","c","y"," ","e","t","h","i","c","s">>
txt_repeat_title ==
    <<"p","r","i","v","a","c","y"," ","p","r","i","v","a","c","y">>
txt_repeat_content ==
    <<"i","n","s","e","c","u","r","i","t","y">>
txt_all_title ==
    <<"E","t","h","i","c","s",","," ","A","c","c","e","s","s","i","b","i","l",
      "i","t","y">>
txt_all_content ==
    <<"s","e","c","u","r","i","t","y"," ","r","i","g","h","t","s"," ","p","r",
      "i","v","a","c","y">>

InputTexts ==
    { [title |-> "txt_mixed_title", content |-> "txt_mixed_content"],
      [title |-> "txt_plain_title", content |-> "txt_plain_content"],
      [title |-> "txt_split_title", content |-> "txt_split_content"],
      [title |-> "txt_repeat_title", content |-> "txt_repeat_content"],
      [title |-> "txt_all_title", content |-> "txt_all_content"] }

\* the characters of a title or content; an Issue holds the text by name
Chars(name) ==
    CASE name = "sample1_title" -> sample1_title
      [] name = "sample1_content" -> sample1_content
      [] name = "sample2_title" -> sample2_title
      [] name = "sample2_content" -> sample2_content
      [] name = "sample3_title" -> sample3_title
      [] name = "sample3_content" -> sample3_content
      [] name = "txt_mixed_title" -> txt_mixed_title
      [] name = "txt_mixed_content" -> txt_mixed_content
      [] name = "txt_plain_title" -> txt_plain_title
      [] name = "txt_plain_content" -> txt_plain_content
      [] name = "txt_split_title" -> txt_split_title
      [] name = "txt_split_content" -> txt_split_content
      [] name = "txt_repeat_title" -> txt_repeat_title
      [] name = "txt_repeat_content" -> txt_repeat_content
      [] name = "txt_all_title" -> txt_all_title
      [] name = "txt_all_content" -> txt_all_content

\* every (title, content) an Issue of the model holds
AllTexts ==
    InputTexts \cup { [title |-> sample_issues[k].title,
                       content |-> sample_issues[k].content] :
                      k \in 1..Len(sample_issues) }

TextOf(issue) == [title |-> issue.title, content |-> issue.content]

\* urgency is an unchecked str: the three documented labels and one other
InputUrgencies == {"low", "medium", "high", "critical"}

----------------------------------------------------------------------------
(* Time *)

\* int(time.time()): whole seconds of a clock reading (readings are >= 0)
IntSeconds(t) == t \div TicksPerSecond

\* the clock readings a call can get after reading t: env.elapsed ticks
\* later, never past env.limit
Readings(env, t) == {u \in {t + e : e \in env.elapsed} : u <= env.limit}

\* the same where the wall clock may have been set since: env.steps
SteppedReadings(env, t) ==
    {u \in {t + e : e \in env.elapsed \cup env.steps} : u <= env.limit}

----------------------------------------------------------------------------
(* Issue *)

IssueInit(title, content, source, urgency, t_time, t_now) ==
    [id        |-> <<"issue", IntSeconds(t_time)>>,
     title     |-> title,
     content   |-> content,
     source    |-> source,
     urgency   |-> urgency,
     timestamp |-> t_now,
     mai_score |-> "None",
     status    |-> "detected"]

----------------------------------------------------------------------------
(* MAIScore *)

MAIScore(mission_alignment, impact_growth, risk_evaluation) ==
    [mission_alignment |-> mission_alignment,
     impact_growth     |-> impact_growth,
     risk_evaluation   |-> risk_evaluation,
     total_score       |-> mission_alignment + impact_growth + risk_evaluation]

\* the thresholds with `>` for `>=`
get_recommendation_strict(score) ==
    IF score.total_score > 30 THEN "TIER_2_HUMAN_REVIEW"
    ELSE IF score.total_score > 15 THEN "ENHANCED_MONITORING"
    ELSE "DOCUMENTATION_ONLY"

get_recommendation(score) ==
    IF score.total_score >= 30 THEN "TIER_2_HUMAN_REVIEW"
    ELSE IF score.total_score >= 15 THEN "ENHANCED_MONITORING"
    ELSE "DOCUMENTATION_ONLY"

----------------------------------------------------------------------------
(* The scoring collaborator (model.generate_content) and MAIScoringAgent *)

\* A reply of the collaborator: the call raises, or returns response.text,
\* kept as its whitespace-separated tokens (str.strip().split()).  A token
\* is numeric when int() accepts it, and then value is what int() returns.
Raises == [raises |-> TRUE, tokens |-> <<>>]
Text(tokens) == [raises |-> FALSE, tokens |-> tokens]
Num(n) == [numeric |-> TRUE, value |-> n, word |-> ""]
Word(w) == [numeric |-> FALSE, value |-> 0, word |-> w]

\* int(response.text.strip().split()[0]): <<n>>, or <<>> when the call, the
\* indexing (IndexError) or int() (ValueError) raises
ParseScore(reply) ==
    IF reply.raises THEN <<>>
    ELSE IF Len(reply.tokens) = 0 THEN <<>>
    ELSE IF reply.tokens[1].numeric THEN <<reply.tokens[1].value>>
    ELSE <<>>

\* the clamp without its lower bound: min(score, 15)
ClampScore_NoLower(score) == Min(score, 15)

\* the clamp without its upper bound: max(score, 0)
ClampScore_NoUpper(score) == Max(score, 0)

\* min(max(score, 0), 15)
ClampScore(score) == Min(Max(score, 0), 15)

\* _fallback_mission_score: content_lower and matches, computed once for
\* each text
FallbackMatches ==
    [txt \in AllTexts |->
        LET content_lower == Lower(Chars(txt.title) \o <<" ">> \o Chars(txt.content))
        IN  CountMatches(keywords, content_lower)]

\* the keyword count without .lower()
_fallback_mission_score_case_sensitive(issue) ==
    LET content == Chars(issue.title) \o <<" ">> \o Chars(issue.content)
    IN  Min(CountMatches(keywords, content) * 3, 15)

_fallback_mission_score(issue) ==
    LET matches == FallbackMatches[TextOf(issue)]
    IN  Min(matches * 3, 15)

_fallback_impact_score(issue) ==
    CASE issue.urgency = "low" -> 5
      [] issue.urgency = "medium" -> 10
      [] issue.urgency = "high" -> 15
      [] OTHER -> 10

_fallback_risk_score(issue) == 8

score_mission_alignment(issue, reply) ==
    LET parsed == ParseScore(reply)
    IN  IF Len(parsed) = 1 THEN ClampScore(parsed[1])
        ELSE _fallback_mission_score(issue)

score_impact_growth(issue, reply) ==
    LET parsed == ParseScore(reply)
    IN  IF Len(parsed) = 1 THEN ClampScore(parsed[1])
        ELSE _fallback_impact_score(issue)

score_risk_evaluation(issue, reply) ==
    LET parsed == ParseScore(reply)
    IN  IF Len(parsed) = 1 THEN ClampScore(parsed[1])
        ELSE _fallback_risk_score(issue)

\* calculate_full_mai_score: the MAIScore returned and the record appended
\* to decision_history; replies are the collaborator's three replies, now
\* the datetime.now() of the record
calculate_full_mai_score(issue, replies, now) ==
    LET mission_score == score_mission_alignment(issue, replies.mission)
        impact_score  == score_impact_growth(issue, replies.impact)
        risk_score    == score_risk_evaluation(issue, replies.risk)
        score         == MAIScore(mission_score, impact_score, risk_score)
    IN  [mai_score |-> score,
         record |-> [issue_id  |-> issue.id,
                     timestamp |-> now,
                     mai_score |-> score.total_score,
                     breakdown |-> [mission |-> mission_score,
                                    impact  |-> impact_score,
                                    risk    |-> risk_score]]]

----------------------------------------------------------------------------
(* MonitorAgent *)

\* _is_relevant_issue: content and keyword_matches, computed once for each
\* text
MonitorMatches ==
    [txt \in AllTexts |->
        LET content == Lower(Chars(txt.title) \o <<" ">> \o Chars(txt.content))
        IN  CountMatches(monitor_keywords, content)]

_is_relevant_issue(issue_data) ==
    LET keyword_matches == MonitorMatches[TextOf(issue_data)]
        is_urgent == issue_data.urgency \in {"medium", "high"}
    IN  keyword_matches > 0 \/ is_urgent

\* simulate_web_monitoring: one Issue per relevant sample, in order; the
\* k-th Issue built reads the clock at ts[2k-1] (time.time()) and ts[2k]
\* (datetime.now())
relevant_samples == SelectSeq(sample_issues, _is_relevant_issue)

simulate_web_monitoring(ts) ==
    [k \in 1..Len(relevant_samples) |->
        IssueInit(relevant_samples[k].title, relevant_samples[k].content,
                  relevant_samples[k].source, relevant_samples[k].urgency,
                  ts[2 * k - 1], ts[2 * k])]

----------------------------------------------------------------------------
(* ConflictResolutionAgent *)

\* timedelta(hours=2) of the simulated scheduled content
ScheduledOffsetHours == 2
\* `time_diff < 6`
ConflictWindowHours == 6

\* the scheduled item with a low priority
scheduled_content_low_priority(now) ==
    [type           |-> "fundraising_email",
     title          |-> "Year-end Giving Campaign",
     scheduled_time |-> now + ScheduledOffsetHours * Hour,
     priority       |-> "low"]

scheduled_content(now) ==
    [type           |-> "fundraising_email",
     title          |-> "Year-end Giving Campaign",
     scheduled_time |-> now + ScheduledOffsetHours * Hour,
     priority       |-> "high"]

\* the threshold at 2: a high scheduled priority alone is CRITICAL
_assess_conflict_severity_low_threshold(issue, content) ==
    LET severity_score ==
            (IF content.priority = "high" THEN 2 ELSE 0)
          + (IF issue.urgency = "high" THEN 3 ELSE 0)
    IN  IF severity_score >= 2 THEN "CRITICAL" ELSE "MODERATE"

_assess_conflict_severity(issue, content) ==
    LET severity_score ==
            (IF content.priority = "high" THEN 2 ELSE 0)
          + (IF issue.urgency = "high" THEN 3 ELSE 0)
    IN  IF severity_score >= 4 THEN "CRITICAL" ELSE "MODERATE"

\* the comparison without abs()
WithinConflictWindow_NoAbs(scheduled_time, now) ==
    scheduled_time - now < ConflictWindowHours * Hour

\* abs((scheduled_time - now).total_seconds() / 3600) < 6, in ticks: the
\* quotient is below 6 exactly when the difference is below 6 hours
WithinConflictWindow(scheduled_time, now) ==
    Abs(scheduled_time - now) < ConflictWindowHours * Hour

\* detect_channel_conflict: <<conflict>>, or <<>> for None.  now_a is the
\* datetime.now() the scheduled time is built from, now_b the one it is
\* compared with, t_id the time.time() of the conflict id, now_c detected_at
detect_channel_conflict(new_issue, now_a, now_b, t_id, now_c) ==
    LET content == scheduled_content(now_a)
    IN  IF WithinConflictWindow(content.scheduled_time, now_b)
        THEN << [conflict_id         |-> <<"conflict", IntSeconds(t_id)>>,
                 new_issue           |-> new_issue,
                 conflicting_content |-> content,
                 severity            |-> _assess_conflict_severity(new_issue, content),
                 detected_at         |-> now_c] >>
        ELSE <<>>

execute_lightning_protocol(c, now) ==
    LET decision ==
            IF c.severity = "CRITICAL"
            THEN [action    |-> "SEGMENT_AND_STAGGER",
                  rationale |-> "High-priority issue requires immediate response with audience segmentation."]
            ELSE [action    |-> "DELAY_SECONDARY",
                  rationale |-> "Delay scheduled content to avoid message collision."]
    IN  [conflict_id     |-> c.conflict_id,
         resolution_time |-> now,
         decision        |-> decision]

----------------------------------------------------------------------------
(* DecisionSupportAgent *)

\* the first rule with `or` for `and`
_determine_priority_or(score, issue) ==
    IF score.total_score >= 35 \/ issue.urgency = "high" THEN "P0 - CRITICAL"
    ELSE IF score.total_score >= 25 \/ issue.urgency = "high" THEN "P1 - HIGH"
    ELSE IF score.total_score >= 15 THEN "P2 - MEDIUM"
    ELSE "P3 - LOW"

_determine_priority(score, issue) ==
    IF score.total_score >= 35 /\ issue.urgency = "high" THEN "P0 - CRITICAL"
    ELSE IF score.total_score >= 25 \/ issue.urgency = "high" THEN "P1 - HIGH"
    ELSE IF score.total_score >= 15 THEN "P2 - MEDIUM"
    ELSE "P3 - LOW"

\* tier 2 without the test of urgency
_estimate_response_time_no_urgency(routing, urgency) ==
    IF routing = "TIER_2_HUMAN_REVIEW" THEN "2-4 hours"
    ELSE IF routing = "ENHANCED_MONITORING" THEN "8-24 hours"
    ELSE "24-48 hours"

_estimate_response_time(routing, urgency) ==
    IF routing = "TIER_2_HUMAN_REVIEW"
    THEN (IF urgency = "high" THEN "2-4 hours" ELSE "4-8 hours")
    ELSE IF routing = "ENHANCED_MONITORING" THEN "8-24 hours"
    ELSE "24-48 hours"

\* the decision's issue_id made from the clock, as Issue.__init__ makes ids
route_issue_clock_id(issue, score, now) ==
    LET recommendation == get_recommendation(score)
    IN  [issue_id                |-> <<"issue", IntSeconds(now)>>,
         mai_score               |-> score.total_score,
         routing                 |-> recommendation,
         priority_level          |-> _determine_priority(score, issue),
         estimated_response_time |-> _estimate_response_time(recommendation, issue.urgency),
         decision_timestamp      |-> now]

route_issue(issue, score, now) ==
    LET recommendation == get_recommendation(score)
    IN  [issue_id                |-> issue.id,
         mai_score               |-> score.total_score,
         routing                 |-> recommendation,
         priority_level          |-> _determine_priority(score, issue),
         estimated_response_time |-> _estimate_response_time(recommendation, issue.urgency),
         decision_timestamp      |-> now]

----------------------------------------------------------------------------
(* Environments: how the clock advances between readings, what the         *)
(* collaborator may reply, what Issues a caller constructs                 *)

\* the three replies of one calculate_full_mai_score call
ReplyTriples(replies) == [mission : replies, impact : replies, risk : replies]

\* an outage; three in-range integers; one out-of-range integer, one
\* unparseable text and one integer followed by words
FewTriples ==
    { [mission |-> Raises, impact |-> Raises, risk |-> Raises],
      [mission |-> Text(<<Num(12)>>), impact |-> Text(<<Num(9)>>),
       risk |-> Text(<<Num(15)>>)],
      [mission |-> Text(<<Num(20)>>), impact |-> Text(<<Word("n/a")>>),
       risk |-> Text(<<Num(7), Word("points")>>)] }

\* every reply shape: the call raises; blank text; a word; an integer after
\* a word; an integer followed by a word; and each integer from ReplyMargin
\* below the range to ReplyMargin above it
AllReplies ==
    {Raises, Text(<<>>), Text(<<Word("n/a")>>), Text(<<Word("Score:"), Num(12)>>),
     Text(<<Num(7), Word("points")>>)}
    \cup {Text(<<Num(n)>>) : n \in (0 - ReplyMargin)..(15 + ReplyMargin)}

Input(title, content, urgency) ==
    [title |-> title, content |-> content, urgency |-> urgency]

\* a running system: the clock moves forward a little between readings
RunEnv ==
    [elapsed |-> 0..MaxElapsed,
     steps   |-> {},
     limit   |-> StartClock + MaxClock,
     triples |-> FewTriples,
     inputs  |-> {Input("txt_repeat_title", "txt_repeat_content", "low"),
                  Input("txt_repeat_title", "txt_repeat_content", "high")},
     driver  |-> "none"]

\* the scorer and the router on their own: every reply of the collaborator,
\* texts with 0, 1, 2, 3 and 5 keyword hits, every urgency; the calls take
\* less than a tick
ScoreEnv ==
    [elapsed |-> {0},
     steps   |-> {},
     limit   |-> StartClock,
     triples |-> ReplyTriples(AllReplies),
     inputs  |-> {Input("txt_mixed_title", "txt_mixed_content", "high"),
                  Input("txt_plain_title", "txt_plain_content", "low"),
                  Input("txt_split_title", "txt_split_content", "medium"),
                  Input("txt_repeat_title", "txt_repeat_content", "high"),
                  Input("txt_all_title", "txt_all_content", "critical"),
                  Input("txt_repeat_title", "txt_repeat_content", "low"),
                  Input("txt_plain_title", "txt_plain_content", "high"),
                  Input("txt_all_title", "txt_all_content", "medium")},
     driver  |-> "ethics"]

\* differences between the scheduled time and the time it is compared with
\* that a stepped wall clock can produce: none, the 2 hours of an unstepped
\* clock, and both sides of the 6-hour threshold in either direction
WallDiffs ==
    {0, ScheduledOffsetHours * Hour}
    \cup {s * d : s \in {-1, 1},
                  d \in {ConflictWindowHours * Hour - Minute,
                         ConflictWindowHours * Hour - 1,
                         ConflictWindowHours * Hour,
                         ConflictWindowHours * Hour + 1,
                         ConflictWindowHours * Hour + Minute}}

\* the conflict resolver under a wall clock that is set (datetime.now() is
\* not monotonic) between building the scheduled time and comparing it
WallEnv ==
    [elapsed |-> {0},
     steps   |-> {ScheduledOffsetHours * Hour - d : d \in WallDiffs},
     limit   |-> StartClock + 24 * Hour,
     triples |-> FewTriples,
     inputs  |-> {Input("txt_mixed_title", "txt_mixed_content", u) :
                  u \in InputUrgencies},
     driver  |-> "privacy"]

TypeOK ==
    /\ clock \in Int
    /\ pc \in {"idle", "score", "detect", "resolve", "route", "end",
               "sim_issue", "sim_score", "sim_detect", "sim_resolve",
               "sim_route", "sim_done"}

----------------------------------------------------------------------------
(* State after RapidResponseSystem.__init__ *)

Fresh(start) ==
    /\ clock = StartClock
    /\ issues = <<>>
    /\ decision_history = <<>>
    /\ score_call = <<>>
    /\ detect_call = <<>>
    /\ assess_call = <<>>
    /\ resolve_call = <<>>
    /\ route_calls = {}
    /\ pc = start
    /\ detected_issues = <<>>
    /\ idx = 1
    /\ mai_score = <<>>
    /\ conflict = <<>>
    /\ cycle_results = <<>>
    /\ report = <<>>

Init == Fresh("idle")

cycle_vars == <<pc, detected_issues, idx, mai_score, conflict, cycle_results, report>>

----------------------------------------------------------------------------
(* The agents' operations, called directly (as examples/crisis_simulation.py *)
(* does) while no cycle is running                                         *)

\* Issue(title, content, source, urgency)
CreateIssue(env) ==
    /\ pc = "idle"
    /\ Len(issues) < MaxIssues
    /\ \E inp \in env.inputs :
       \E t_time \in Readings(env, clock) :
       \E t_now \in Readings(env, t_time) :
          /\ issues' = Append(issues,
                 IssueInit(inp.title, inp.content, "caller", inp.urgency, t_time, t_now))
          /\ clock' = t_now
    /\ UNCHANGED <<decision_history, score_call, detect_call, assess_call,
                   resolve_call, route_calls, cycle_vars>>

\* scorer.calculate_full_mai_score(issue)
Score(env) ==
    /\ pc = "idle"
    /\ Len(decision_history) < MaxHistory
    /\ \E k \in 1..Len(issues), replies \in env.triples :
       \E now \in Readings(env, clock) :
          LET r == calculate_full_mai_score(issues[k], replies, now)
          IN  /\ decision_history' = Append(decision_history, r.record)
              /\ score_call' = << [issue |-> issues[k], replies |-> replies,
                                   result |-> r.mai_score] >>
              /\ clock' = now
    /\ UNCHANGED <<issues, detect_call, assess_call, resolve_call, route_calls,
                   cycle_vars>>

\* decision_support.route_issue(issue, mai_score), on any Issue and the
\* MAIScore the scorer returned last
Route(env) ==
    /\ pc = "idle"
    /\ Len(score_call) = 1
    /\ Cardinality(route_calls) < MaxRoutes
    /\ \E k \in 1..Len(issues) :
       \E now \in Readings(env, clock) :
          /\ route_calls' = route_calls \cup
                 { [issue    |-> issues[k],
                    score    |-> score_call[1].result,
                    decision |-> route_issue(issues[k], score_call[1].result, now)] }
          /\ clock' = now
    /\ UNCHANGED <<issues, decision_history, score_call, detect_call,
                   assess_call, resolve_call, cycle_vars>>

----------------------------------------------------------------------------
(* RapidResponseSystem.run_full_cycle, one step per call it makes *)

\* f"{cycle_time:.1f}": tenths of a second, rounded to the nearest
Tenths(ticks) == (ticks * 20 + TicksPerSecond) \div (2 * TicksPerSecond)

\* chains of n successive clock readings after t
RECURSIVE ReadingChains(_, _, _)
ReadingChains(env, t, n) ==
    IF n = 0 THEN {<<>>}
    ELSE UNION { { <<u>> \o rest : rest \in ReadingChains(env, u, n - 1) } :
                 u \in Readings(env, t) }

\* start_time, monitor.simulate_web_monitoring(), cycle_results; __main__
\* calls run_full_cycle once
CycleStart(env) ==
    /\ pc = "idle"
    /\ Len(report) = 0
    /\ \E start_time \in Readings(env, clock) :
       \E ts \in ReadingChains(env, start_time,
                     2 * Len(relevant_samples)) :
          LET detected == simulate_web_monitoring(ts)
          IN  /\ detected_issues' = detected
              /\ issues' = issues \o detected
              /\ cycle_results' = << [timestamp          |-> start_time,
                                      issues_detected    |-> Len(detected),
                                      issues_processed   |-> <<>>,
                                      conflicts_resolved |-> <<>>] >>
              /\ clock' = IF Len(ts) = 0 THEN start_time ELSE ts[Len(ts)]
              /\ pc' = IF Len(detected) = 0 THEN "end" ELSE "score"
    /\ idx' = 1
    /\ mai_score' = <<>>
    /\ conflict' = <<>>
    /\ UNCHANGED <<decision_history, score_call, detect_call, assess_call,
                   resolve_call, route_calls, report>>

\* a history that keeps only the latest record
CycleScore_KeepLast(env) ==
    /\ pc = "score"
    /\ \E replies \in env.triples :
       \E now \in Readings(env, clock) :
          LET issue == detected_issues[idx]
              r == calculate_full_mai_score(issue, replies, now)
          IN  /\ decision_history' = <<r.record>>
              /\ score_call' = << [issue |-> issue, replies |-> replies,
                                   result |-> r.mai_score] >>
              /\ mai_score' = <<r.mai_score>>
              /\ clock' = now
    /\ pc' = "detect"
    /\ UNCHANGED <<issues, detect_call, assess_call, resolve_call, route_calls,
                   detected_issues, idx, conflict, cycle_results, report>>

\* the loop body without its conflict check: routing follows scoring
CycleScore_NoDetect(env) ==
    /\ pc = "score"
    /\ \E replies \in env.triples :
       \E now \in Readings(env, clock) :
          LET issue == detected_issues[idx]
              r == calculate_full_mai_score(issue, replies, now)
          IN  /\ decision_history' = Append(decision_history, r.record)
              /\ score_call' = << [issue |-> issue, replies |-> replies,
                                   result |-> r.mai_score] >>
              /\ mai_score' = <<r.mai_score>>
              /\ clock' = now
    /\ pc' = "route"
    /\ UNCHANGED <<issues, detect_call, assess_call, resolve_call, route_calls,
                   detected_issues, idx, conflict, cycle_results, report>>

\* mai_score = self.scorer.calculate_full_mai_score(issue)
CycleScore(env) ==
    /\ pc = "score"
    /\ \E replies \in env.triples :
       \E now \in Readings(env, clock) :
          LET issue == detected_issues[idx]
              r == calculate_full_mai_score(issue, replies, now)
          IN  /\ decision_history' = Append(decision_history, r.record)
              /\ score_call' = << [issue |-> issue, replies |-> replies,
                                   result |-> r.mai_score] >>
              /\ mai_score' = <<r.mai_score>>
              /\ clock' = now
    /\ pc' = "detect"
    /\ UNCHANGED <<issues, detect_call, assess_call, resolve_call, route_calls,
                   detected_issues, idx, conflict, cycle_results, report>>

\* conflict = self.conflict_resolver.detect_channel_conflict(issue)
CycleDetect(env) ==
    /\ pc = "detect"
    /\ \E now_a \in Readings(env, clock) :
       \E now_b \in SteppedReadings(env, now_a) :
       \E t_id \in Readings(env, now_b) :
       \E now_c \in Readings(env, t_id) :
          LET issue == detected_issues[idx]
              r == detect_channel_conflict(issue, now_a, now_b, t_id, now_c)
          IN  /\ detect_call' = << [issue     |-> issue,
                                    scheduled |-> scheduled_content(now_a),
                                    now       |-> now_b,
                                    result    |-> r] >>
              /\ conflict' = r
              /\ clock' = IF Len(r) = 1 THEN now_c ELSE now_b
              /\ pc' = IF Len(r) = 1 THEN "resolve" ELSE "route"
    /\ UNCHANGED <<issues, decision_history, score_call, assess_call,
                   resolve_call, route_calls, detected_issues, idx, mai_score,
                   cycle_results, report>>

\* if conflict: resolution = execute_lightning_protocol(conflict);
\* cycle_results['conflicts_resolved'].append(resolution)
CycleResolve(env) ==
    /\ pc = "resolve"
    /\ \E now \in Readings(env, clock) :
          LET resolution == execute_lightning_protocol(conflict[1], now)
          IN  /\ resolve_call' = << [conflict |-> conflict[1],
                                     result   |-> resolution] >>
              /\ cycle_results' =
                     << [cycle_results[1] EXCEPT !.conflicts_resolved =
                             Append(@, resolution)] >>
              /\ clock' = now
    /\ pc' = "route"
    /\ UNCHANGED <<issues, decision_history, score_call, detect_call,
                   assess_call, route_calls, detected_issues, idx, mai_score,
                   conflict, report>>

\* routing_decision = self.decision_support.route_issue(issue, mai_score);
\* cycle_results['issues_processed'].append(...); next issue of the first 3
CycleRoute(env) ==
    /\ pc = "route"
    /\ \E now \in Readings(env, clock) :
          LET issue == detected_issues[idx]
              routing_decision == route_issue(issue, mai_score[1], now)
          IN  /\ route_calls' = route_calls \cup
                     { [issue    |-> issue,
                        score    |-> mai_score[1],
                        decision |-> routing_decision] }
              /\ cycle_results' =
                     << [cycle_results[1] EXCEPT !.issues_processed =
                             Append(@, [issue     |-> issue,
                                        mai_score |-> mai_score[1].total_score,
                                        routing   |-> routing_decision])] >>
              /\ clock' = now
    /\ idx' = idx + 1
    /\ pc' = IF idx + 1 <= Min(Len(detected_issues), 3) THEN "score" ELSE "end"
    /\ UNCHANGED <<issues, decision_history, score_call, detect_call,
                   assess_call, resolve_call, detected_issues, mai_score,
                   conflict, report>>

\* end_time, total_cycle_time, return cycle_results
CycleEnd(env) ==
    /\ pc = "end"
    /\ \E end_time \in Readings(env, clock) :
          /\ report' = << [timestamp          |-> cycle_results[1].timestamp,
                           issues_detected    |-> cycle_results[1].issues_detected,
                           issues_processed   |-> cycle_results[1].issues_processed,
                           conflicts_resolved |-> cycle_results[1].conflicts_resolved,
                           total_cycle_time   |->
                               Tenths(end_time - cycle_results[1].timestamp)] >>
          /\ clock' = end_time
    /\ pc' = "idle"
    /\ UNCHANGED <<issues, decision_history, score_call, detect_call,
                   assess_call, resolve_call, route_calls, detected_issues, idx,
                   mai_score, conflict, cycle_results>>

\* the program of the module's __main__: run_full_cycle on a new system
Next ==
    \/ CycleStart(RunEnv)
    \/ CycleScore(RunEnv)
    \/ CycleDetect(RunEnv)
    \/ CycleResolve(RunEnv)
    \/ CycleRoute(RunEnv)
    \/ CycleEnd(RunEnv)

Spec == Init /\ [][Next]_vars

----------------------------------------------------------------------------
(* examples/crisis_simulation.py: run_privacy_crisis_simulation (Issue,     *)
(* score, detect, resolve if a conflict, route) and run_ai_ethics_simulation *)
(* (Issue, score, route), each on a new system and one Issue                *)

SimIssue(env) ==
    /\ pc = "sim_issue"
    /\ \E inp \in env.inputs :
       \E t_time \in Readings(env, clock) :
       \E t_now \in Readings(env, t_time) :
          /\ issues' = <<IssueInit(inp.title, inp.content, "caller", inp.urgency,
                                   t_time, t_now)>>
          /\ clock' = t_now
    /\ pc' = "sim_score"
    /\ UNCHANGED <<decision_history, score_call, detect_call, assess_call,
                   resolve_call, route_calls, detected_issues, idx, mai_score,
                   conflict, cycle_results, report>>

SimScore(env) ==
    /\ pc = "sim_score"
    /\ \E replies \in env.triples :
       \E now \in Readings(env, clock) :
          LET r == calculate_full_mai_score(issues[1], replies, now)
          IN  /\ decision_history' = Append(decision_history, r.record)
              /\ score_call' = << [issue |-> issues[1], replies |-> replies,
                                   result |-> r.mai_score] >>
              /\ mai_score' = <<r.mai_score>>
              /\ clock' = now
    /\ pc' = IF env.driver = "privacy" THEN "sim_detect" ELSE "sim_route"
    /\ UNCHANGED <<issues, detect_call, assess_call, resolve_call, route_calls,
                   detected_issues, idx, conflict, cycle_results, report>>

SimDetect(env) ==
    /\ pc = "sim_detect"
    /\ \E now_a \in Readings(env, clock) :
       \E now_b \in SteppedReadings(env, now_a) :
       \E t_id \in Readings(env, now_b) :
       \E now_c \in Readings(env, t_id) :
          LET r == detect_channel_conflict(issues[1], now_a, now_b, t_id, now_c)
          IN  /\ detect_call' = << [issue     |-> issues[1],
                                    scheduled |-> scheduled_content(now_a),
                                    now       |-> now_b,
                                    result    |-> r] >>
              /\ conflict' = r
              /\ clock' = IF Len(r) = 1 THEN now_c ELSE now_b
              /\ pc' = IF Len(r) = 1 THEN "sim_resolve" ELSE "sim_route"
    /\ UNCHANGED <<issues, decision_history, score_call, assess_call,
                   resolve_call, route_calls, detected_issues, idx, mai_score,
                   cycle_results, report>>

SimResolve(env) ==
    /\ pc = "sim_resolve"
    /\ \E now \in Readings(env, clock) :
          /\ resolve_call' = << [conflict |-> conflict[1],
                                 result   |-> execute_lightning_protocol(conflict[1], now)] >>
          /\ clock' = now
    /\ pc' = "sim_route"
    /\ UNCHANGED <<issues, decision_history, score_call, detect_call,
                   assess_call, route_calls, detected_issues, idx, mai_score,
                   conflict, cycle_results, report>>

SimRoute(env) ==
    /\ pc = "sim_route"
    /\ \E now \in Readings(env, clock) :
          /\ route_calls' = route_calls \cup
                 { [issue    |-> issues[1],
                    score    |-> mai_score[1],
                    decision |-> route_issue(issues[1], mai_score[1], now)] }
          /\ clock' = now
    /\ pc' = "sim_done"
    /\ UNCHANGED <<issues, decision_history, score_call, detect_call,
                   assess_call, resolve_call, detected_issues, idx, mai_score,
                   conflict, cycle_results, report>>

----------------------------------------------------------------------------
(* The conflict resolver's two decisions applied to arguments of the        *)
(* caller's making                                                          *)

Priorities == {"high", "medium", "low"}
Severities == {"CRITICAL", "MODERATE", "LOW"}

\* _assess_conflict_severity(issue, content) on the Issue and a scheduled
\* item of any priority
AssessAny ==
    /\ Len(issues) = 1
    /\ \E priority \in Priorities :
          LET content == [scheduled_content(clock) EXCEPT !.priority = priority]
          IN  assess_call' = << [issue   |-> issues[1],
                                 content |-> content,
                                 result  |-> _assess_conflict_severity(issues[1], content)] >>
    /\ UNCHANGED <<clock, issues, decision_history, score_call, detect_call,
                   resolve_call, route_calls, cycle_vars>>

\* execute_lightning_protocol(conflict) on a conflict dict of any severity
\* and any scheduled priority
ExecuteAny(env) ==
    /\ Len(issues) = 1
    /\ \E severity \in Severities, priority \in Priorities :
       \E now \in Readings(env, clock) :
          LET c == [conflict_id         |-> <<"conflict", IntSeconds(clock)>>,
                    new_issue           |-> issues[1],
                    conflicting_content |->
                        [scheduled_content(clock) EXCEPT !.priority = priority],
                    severity            |-> severity,
                    detected_at         |-> clock]
          IN  /\ resolve_call' = << [conflict |-> c,
                                     result   |-> execute_lightning_protocol(c, now)] >>
              /\ clock' = now
    /\ UNCHANGED <<issues, decision_history, score_call, detect_call,
                   assess_call, route_calls, cycle_vars>>

\* a caller of the agents' operations, in any order
NextCalls ==
    \/ CreateIssue(RunEnv)
    \/ Score(RunEnv)
    \/ Route(RunEnv)

SpecCalls == Init /\ [][NextCalls]_vars


InitSim == Fresh("sim_issue")

\* run_ai_ethics_simulation: the scorer and the router
NextScore ==
    \/ SimIssue(ScoreEnv)
    \/ SimScore(ScoreEnv)
    \/ SimRoute(ScoreEnv)

SpecScore == InitSim /\ [][NextScore]_vars

\* run_privacy_crisis_simulation under a wall clock that may be set, and the
\* resolver's decisions on any arguments
NextWall ==
    \/ SimIssue(WallEnv)
    \/ SimScore(WallEnv)
    \/ SimDetect(WallEnv)
    \/ SimResolve(WallEnv)
    \/ SimRoute(WallEnv)
    \/ AssessAny
    \/ ExecuteAny(WallEnv)

SpecWall == InitSim /\ [][NextWall]_vars

\* run_full_cycle under a wall clock that may be set between the two
\* datetime.now() calls of detect_channel_conflict: back by the 4 hours, or
\* forward by the 8 hours, that put the scheduled time 6 hours away
CycleEnv ==
    [elapsed |-> {0},
     steps   |-> {0 - (ConflictWindowHours - ScheduledOffsetHours) * Hour,
                  (ConflictWindowHours + ScheduledOffsetHours) * Hour},
     limit   |-> StartClock + 24 * Hour,
     triples |-> FewTriples,
     inputs  |-> RunEnv.inputs,
     driver  |-> "none"]

NextCycle ==
    \/ CycleStart(CycleEnv)
    \/ CycleScore(CycleEnv)
    \/ CycleDetect(CycleEnv)
    \/ CycleResolve(CycleEnv)
    \/ CycleRoute(CycleEnv)
    \/ CycleEnd(CycleEnv)

\* run_full_cycle is straight-line synchronous code in one thread: each
\* call it makes returns or raises, and the statement after it runs
SpecCycle == Init /\ [][NextCycle]_vars /\ WF_vars(NextCycle)

----------------------------------------------------------------------------
(* Properties of the scorer (calculate_full_mai_score), under SpecScore *)

\* the latest score call, when there is one
Scored == Len(score_call) = 1

\* the three dimensions of a score, and a reply and a sub-score by dimension
Dimensions == {"mission", "impact", "risk"}

ReplyOf(call, d) ==
    CASE d = "mission" -> call.replies.mission
      [] d = "impact"  -> call.replies.impact
      [] d = "risk"    -> call.replies.risk

SubScore(call, d) ==
    CASE d = "mission" -> call.result.mission_alignment
      [] d = "impact"  -> call.result.impact_growth
      [] d = "risk"    -> call.result.risk_evaluation

\* the collaborator call raised, or its text does not start with an integer
ReplyFails(reply) ==
    \/ reply.raises
    \/ Len(reply.tokens) = 0
    \/ ~reply.tokens[1].numeric

\* the collaborator returned text that starts with the integer n
ReplyIs(reply, n) ==
    /\ ~reply.raises
    /\ Len(reply.tokens) > 0
    /\ reply.tokens[1].numeric
    /\ reply.tokens[1].value = n

\* keywords of {privacy, security, rights, accessibility, ethics} in each
\* input text, counted by hand
ExpectedHits(title) ==
    CASE title = "txt_mixed_title"  -> 3
      [] title = "txt_plain_title"  -> 0
      [] title = "txt_split_title"  -> 1
      [] title = "txt_repeat_title" -> 2
      [] title = "txt_all_title"    -> 5

\* the local heuristic of the specification, section 4.1
Heuristic(issue, d) ==
    CASE d = "mission" -> Min(3 * ExpectedHits(issue.title), 15)
      [] d = "impact"  -> (CASE issue.urgency = "low" -> 5
                             [] issue.urgency = "medium" -> 10
                             [] issue.urgency = "high" -> 15
                             [] OTHER -> 10)
      [] d = "risk"    -> 8

\* C1: whatever the three collaborator calls do, every sub-score of a
\* returned Score is in 0..15, total is their sum, and total is in 0..45.
C1_ScoreInRange ==
    Scored =>
        LET s == score_call[1].result
        IN  /\ s.mission_alignment \in 0..15
            /\ s.impact_growth \in 0..15
            /\ s.risk_evaluation \in 0..15
            /\ s.total_score = s.mission_alignment + s.impact_growth + s.risk_evaluation
            /\ s.total_score \in 0..45

\* a Score was returned where one call replied above the range, one raised
\* and one returned a word
C1_Witness ==
    /\ Scored
    /\ ReplyIs(score_call[1].replies.mission, 16)
    /\ score_call[1].replies.impact.raises
    /\ score_call[1].replies.risk = Text(<<Word("n/a")>>)
    /\ score_call[1].result.total_score \in 0..45

----------------------------------------------------------------------------
(* Properties of the router (route_issue), under SpecScore.  The code's    *)
(* labels are 'P0 - CRITICAL', 'TIER_2_HUMAN_REVIEW', ...; the              *)
(* specification writes them "P0-CRITICAL", "tier-2 human review", ...      *)

DocumentedUrgencies == {"low", "medium", "high"}

\* C2: for every total in 0..45 and urgency in {low, medium, high} the
\* priority level of a routing decision is P0-CRITICAL exactly when
\* total >= 35 and urgency is high; otherwise P1-HIGH exactly when
\* total >= 25 or urgency is high; otherwise P2-MEDIUM exactly when
\* total >= 15; otherwise P3-LOW.
C2_PriorityPolicy ==
    \A rc \in route_calls :
        LET total   == rc.score.total_score
            urgency == rc.issue.urgency
            level   == rc.decision.priority_level
        IN  (total \in 0..45 /\ urgency \in DocumentedUrgencies) =>
            /\ level \in {"P0 - CRITICAL", "P1 - HIGH", "P2 - MEDIUM", "P3 - LOW"}
            /\ (level = "P0 - CRITICAL") <=> (total >= 35 /\ urgency = "high")
            /\ (level = "P1 - HIGH") <=>
                   (/\ ~(total >= 35 /\ urgency = "high")
                    /\ (total >= 25 \/ urgency = "high"))
            /\ (level = "P2 - MEDIUM") <=>
                   (urgency # "high" /\ total >= 15 /\ total < 25)
            /\ (level = "P3 - LOW") <=> (urgency # "high" /\ total < 15)
            /\ (total = 36 /\ urgency = "high") => level = "P0 - CRITICAL"
            /\ (total = 26 /\ urgency = "low") => level = "P1 - HIGH"
            /\ (total = 20 /\ urgency = "low") => level = "P2 - MEDIUM"
            /\ (total = 5 /\ urgency = "low") => level = "P3 - LOW"

\* an issue of low urgency with total 26 was routed to P1 - HIGH
C2_Witness ==
    \E rc \in route_calls :
        /\ rc.score.total_score = 26
        /\ rc.issue.urgency = "low"
        /\ rc.decision.priority_level = "P1 - HIGH"

\* the tier the specification gives a total
ExpectedTier(total) ==
    IF total >= 30 THEN "TIER_2_HUMAN_REVIEW"
    ELSE IF total >= 15 THEN "ENHANCED_MONITORING"
    ELSE "DOCUMENTATION_ONLY"

TierRank(tier) ==
    CASE tier = "DOCUMENTATION_ONLY" -> 0
      [] tier = "ENHANCED_MONITORING" -> 1
      [] tier = "TIER_2_HUMAN_REVIEW" -> 2

\* C3: the recommendation tier is a step function of the total alone:
\* total >= 30 gives tier-2 human review, 15 <= total < 30 enhanced
\* monitoring, total < 15 documentation only (0 and 14 documentation only,
\* 15 and 29 enhanced monitoring, 30 and 45 tier-2 human review), and no
\* larger total gets a lower tier than the one a routed total got.
C3_TierStepFunction ==
    \A rc \in route_calls :
        LET total == rc.score.total_score
            tier  == rc.decision.routing
        IN  /\ total \in 0..45
            /\ (total >= 30) => tier = "TIER_2_HUMAN_REVIEW"
            /\ (total >= 15 /\ total < 30) => tier = "ENHANCED_MONITORING"
            /\ (total < 15) => tier = "DOCUMENTATION_ONLY"
            /\ (total \in {0, 14}) => tier = "DOCUMENTATION_ONLY"
            /\ (total \in {15, 29}) => tier = "ENHANCED_MONITORING"
            /\ (total \in {30, 45}) => tier = "TIER_2_HUMAN_REVIEW"
            /\ \A larger \in total..45 :
                   TierRank(get_recommendation(MAIScore(larger, 0, 0))) >= TierRank(tier)

\* a total of exactly 30 was routed to tier-2 human review
C3_Witness ==
    \E rc \in route_calls :
        /\ rc.score.total_score = 30
        /\ rc.decision.routing = "TIER_2_HUMAN_REVIEW"

\* C4: the estimated response time of a routing decision is keyed by the
\* tier of the total and then by urgency: tier-2 human review gives
\* 2-4 hours when urgency is high and 4-8 hours otherwise, enhanced
\* monitoring 8-24 hours, documentation only 24-48 hours.
C4_ResponseTime ==
    \A rc \in route_calls :
        LET tier    == ExpectedTier(rc.score.total_score)
            urgency == rc.issue.urgency
            time    == rc.decision.estimated_response_time
        IN  /\ (tier = "TIER_2_HUMAN_REVIEW" /\ urgency = "high") => time = "2-4 hours"
            /\ (tier = "TIER_2_HUMAN_REVIEW" /\ urgency # "high") => time = "4-8 hours"
            /\ (tier = "ENHANCED_MONITORING") => time = "8-24 hours"
            /\ (tier = "DOCUMENTATION_ONLY") => time = "24-48 hours"

\* a tier-2 total of an issue that is not of high urgency was given 4-8 hours
C4_Witness ==
    \E rc \in route_calls :
        /\ rc.score.total_score >= 30
        /\ rc.issue.urgency = "medium"
        /\ rc.decision.estimated_response_time = "4-8 hours"

----------------------------------------------------------------------------
(* The fallback and the clamp, under SpecScore *)

\* C5: when the collaborator call of a dimension raises or returns text that
\* does not parse, that sub-score is the local heuristic (mission:
\* min(3 * keyword hits, 15); impact: 5/10/15 for low/medium/high; risk: 8)
\* and a dimension whose call returned an integer in 0..15 keeps that
\* integer; with all three calls failing, 2 keyword hits and urgency high
\* the Score is (6, 15, 8), total 29, tier enhanced monitoring.
C5_FallbackHeuristic ==
    Scored =>
        LET call == score_call[1]
        IN  /\ \A d \in Dimensions :
                   /\ ReplyFails(ReplyOf(call, d)) =>
                          SubScore(call, d) = Heuristic(call.issue, d)
                   /\ \A n \in 0..15 :
                          ReplyIs(ReplyOf(call, d), n) => SubScore(call, d) = n
            /\ ( /\ \A d \in Dimensions : ReplyFails(ReplyOf(call, d))
                 /\ ExpectedHits(call.issue.title) = 2
                 /\ call.issue.urgency = "high" ) =>
                   /\ call.result = MAIScore(6, 15, 8)
                   /\ call.result.total_score = 29
                   /\ get_recommendation(call.result) = "ENHANCED_MONITORING"

\* the outage scenario: all three calls raised for an issue of high urgency
\* whose text has two of the keywords, and the Score (6, 15, 8) was routed to
\* enhanced monitoring
C5_Witness ==
    /\ Scored
    /\ \A d \in Dimensions : ReplyOf(score_call[1], d).raises
    /\ score_call[1].issue.title = "txt_repeat_title"
    /\ score_call[1].issue.urgency = "high"
    /\ score_call[1].result = MAIScore(6, 15, 8)
    /\ \E rc \in route_calls : rc.decision.routing = "ENHANCED_MONITORING"

\* the collaborator returned text that starts with an integer outside 0..15
OutOfRange(reply) ==
    /\ ~ReplyFails(reply)
    /\ reply.tokens[1].value \notin 0..15

\* C6 as stated: a parseable integer outside 0..15 is replaced by the
\* fallback heuristic of its dimension.
C6_OutOfRangeFallsBack ==
    Scored =>
        \A d \in Dimensions :
            OutOfRange(ReplyOf(score_call[1], d)) =>
                SubScore(score_call[1], d) = Heuristic(score_call[1].issue, d)

\* C6 amended: a parseable integer outside 0..15 is clamped, not replaced:
\* the sub-score is 0 for an integer below 0 and 15 for one above 15; the
\* other two sub-scores are what their own replies give (the integer
\* returned when it is in 0..15, the heuristic when the call failed).
C6_OutOfRangeClamped ==
    Scored =>
        LET call == score_call[1]
        IN  \A d \in Dimensions :
                OutOfRange(ReplyOf(call, d)) =>
                    /\ ReplyOf(call, d).tokens[1].value < 0 => SubScore(call, d) = 0
                    /\ ReplyOf(call, d).tokens[1].value > 15 => SubScore(call, d) = 15
                    /\ \A e \in Dimensions \ {d} :
                           /\ ReplyFails(ReplyOf(call, e)) =>
                                  SubScore(call, e) = Heuristic(call.issue, e)
                           /\ \A n \in 0..15 :
                                  ReplyIs(ReplyOf(call, e), n) => SubScore(call, e) = n

\* the risk call returned 16 and the mission call -1: risk is 15, not the
\* heuristic 8, mission 0, and impact is the 9 its call returned
C6_Witness ==
    /\ Scored
    /\ ReplyIs(score_call[1].replies.risk, 16)
    /\ ReplyIs(score_call[1].replies.mission, -1)
    /\ ReplyIs(score_call[1].replies.impact, 9)
    /\ score_call[1].result = MAIScore(0, 9, 15)

----------------------------------------------------------------------------
(* Properties of the conflict resolver, under SpecWall *)

Detected == Len(detect_call) = 1

\* scheduled time minus the time it was compared with, in the latest
\* detect_channel_conflict call
ScheduledAhead == detect_call[1].scheduled.scheduled_time - detect_call[1].now

\* C7: detect_channel_conflict returns a conflict exactly when the absolute
\* difference between the current time and the scheduled time is strictly
\* less than 6 hours: a scheduled time 5h59m after now and one 5h59m before
\* now both give a conflict, a difference of exactly 6 hours gives the
\* no-conflict result (None), and the sign of the difference does not
\* matter.
C7_ConflictWindow ==
    Detected =>
        LET found == Len(detect_call[1].result) = 1
        IN  /\ found <=> (ScheduledAhead < 6 * Hour /\ 0 - ScheduledAhead < 6 * Hour)
            /\ ScheduledAhead = 5 * Hour + 59 * Minute => found
            /\ ScheduledAhead = 0 - (5 * Hour + 59 * Minute) => found
            /\ ScheduledAhead \in {6 * Hour, 0 - 6 * Hour} => detect_call[1].result = <<>>
            /\ found => /\ detect_call[1].result[1].new_issue = detect_call[1].issue
                        /\ detect_call[1].result[1].conflicting_content =
                               detect_call[1].scheduled

\* a scheduled time 5h59m before the time it was compared with gave a
\* conflict
C7_Witness ==
    /\ Detected
    /\ ScheduledAhead = 0 - (5 * Hour + 59 * Minute)
    /\ Len(detect_call[1].result) = 1

\* the severity score of the specification, section 4.2
SeverityScore(priority, urgency) ==
    (IF priority = "high" THEN 2 ELSE 0) + (IF urgency = "high" THEN 3 ELSE 0)

ExpectedSeverity(priority, urgency) ==
    IF SeverityScore(priority, urgency) >= 4 THEN "CRITICAL" ELSE "MODERATE"

\* C8: the severity of a detected conflict, and of any direct assessment, is
\* CRITICAL exactly when (2 if the scheduled priority is high) + (3 if the
\* issue's urgency is high) >= 4, else MODERATE (high/high scores 5 and is
\* CRITICAL, low/low scores 0 and is MODERATE); and the resolution's action
\* is 'segment and stagger' for severity CRITICAL and 'delay secondary' for
\* any other severity, each with its fixed rationale, whatever the other
\* fields of the conflict.
C8_SeverityAndAction ==
    /\ (Detected /\ Len(detect_call[1].result) = 1) =>
           LET c == detect_call[1].result[1]
           IN  c.severity = ExpectedSeverity(c.conflicting_content.priority,
                                             c.new_issue.urgency)
    /\ Len(assess_call) = 1 =>
           /\ assess_call[1].result =
                  ExpectedSeverity(assess_call[1].content.priority,
                                   assess_call[1].issue.urgency)
           /\ (assess_call[1].content.priority = "low"
               /\ assess_call[1].issue.urgency = "low") =>
                  assess_call[1].result = "MODERATE"
           /\ (assess_call[1].content.priority = "high"
               /\ assess_call[1].issue.urgency = "high") =>
                  assess_call[1].result = "CRITICAL"
    /\ Len(resolve_call) = 1 =>
           LET c == resolve_call[1].conflict
               decision == resolve_call[1].result.decision
           IN  IF c.severity = "CRITICAL"
               THEN decision =
                        [action    |-> "SEGMENT_AND_STAGGER",
                         rationale |-> "High-priority issue requires immediate response with audience segmentation."]
               ELSE decision =
                        [action    |-> "DELAY_SECONDARY",
                         rationale |-> "Delay scheduled content to avoid message collision."]

\* a conflict detected for an issue of high urgency is CRITICAL and was
\* resolved by segment and stagger
C8_Witness ==
    /\ Detected
    /\ Len(detect_call[1].result) = 1
    /\ detect_call[1].result[1].severity = "CRITICAL"
    /\ detect_call[1].issue.urgency = "high"
    /\ Len(resolve_call) = 1
    /\ resolve_call[1].conflict = detect_call[1].result[1]
    /\ resolve_call[1].result.decision.action = "SEGMENT_AND_STAGGER"

----------------------------------------------------------------------------
(* Properties of route_issue across calls, under SpecCalls *)

\* a routing decision without its decision_timestamp
Undated(decision) ==
    [issue_id                |-> decision.issue_id,
     mai_score               |-> decision.mai_score,
     routing                 |-> decision.routing,
     priority_level          |-> decision.priority_level,
     estimated_response_time |-> decision.estimated_response_time]

\* C9 as stated: two route_issue calls with the same (issue, score) return
\* decisions that are equal in every field.
C9_SameDecision ==
    \A a, b \in route_calls :
        (a.issue = b.issue /\ a.score = b.score) => a.decision = b.decision

\* C9 amended: two route_issue calls with the same (issue, score), whatever
\* was called in between, return decisions equal in every field except
\* decision_timestamp, which is the clock reading of each call.
C9_SameDecisionButTimestamp ==
    \A a, b \in route_calls :
        (a.issue = b.issue /\ a.score = b.score) =>
            Undated(a.decision) = Undated(b.decision)

\* the same (issue, score) was routed twice, at different clock readings
C9_Witness ==
    \E a, b \in route_calls :
        /\ a.issue = b.issue
        /\ a.score = b.score
        /\ a.decision.decision_timestamp < b.decision.decision_timestamp
        /\ Undated(a.decision) = Undated(b.decision)

----------------------------------------------------------------------------
(* Issue identifiers, under Spec *)

\* C10: any two distinct Issue records created during an execution have
\* different identifiers.
C10_UniqueIssueIds ==
    \A i, j \in 1..Len(issues) : i # j => issues[i].id # issues[j].id

----------------------------------------------------------------------------
(* The order of run_full_cycle's calls and its report, under SpecCycle *)

\* the entries and the resolutions the running cycle has accumulated
Processed ==
    IF Len(cycle_results) = 1 THEN cycle_results[1].issues_processed ELSE <<>>

Resolved ==
    IF Len(cycle_results) = 1 THEN cycle_results[1].conflicts_resolved ELSE <<>>

\* seq with one more element at its end
Extends(longer, seq) ==
    /\ Len(longer) = Len(seq) + 1
    /\ SubSeq(longer, 1, Len(seq)) = seq

\* a score call: the issue scored is the next of the input, every issue
\* before it has been routed, and none after it has been scored
ScoreInOrder ==
    decision_history' # decision_history =>
        /\ Len(Processed) = Len(decision_history)
        /\ Extends(decision_history', decision_history)
        /\ score_call'[1].issue = detected_issues[Len(Processed) + 1]
        /\ Processed' = Processed
        /\ Resolved' = Resolved

\* a detect call: on the issue scored last, which has not been routed
DetectInOrder ==
    detect_call' # detect_call =>
        /\ Len(decision_history) = Len(Processed) + 1
        /\ detect_call'[1].issue = detected_issues[Len(Processed) + 1]
        /\ score_call[1].issue = detect_call'[1].issue
        /\ Processed' = Processed
        /\ Resolved' = Resolved

\* a resolution: of the conflict the detect call on the current issue
\* returned, and the first for that issue
ResolveInOrder ==
    Resolved' # Resolved =>
        /\ Len(decision_history) = Len(Processed) + 1
        /\ Len(detect_call) = 1
        /\ detect_call[1].issue = detected_issues[Len(Processed) + 1]
        /\ Len(detect_call[1].result) = 1
        /\ resolve_call'[1].conflict = detect_call[1].result[1]
        /\ Extends(Resolved', Resolved)
        /\ Resolved'[Len(Resolved')] = resolve_call'[1].result
        /\ Len(Resolved) <= Len(Processed)
        /\ Processed' = Processed

\* a routing: of the issue scored and checked last; its conflict, if one was
\* detected, has been resolved; the entry appended holds the issue, the
\* total of its score and its routing decision
RouteInOrder ==
    Processed' # Processed =>
        LET k == Len(Processed) + 1
        IN  /\ Len(decision_history) = k
            /\ score_call[1].issue = detected_issues[k]
            /\ Len(detect_call) = 1
            /\ detect_call[1].issue = detected_issues[k]
            /\ IF Len(detect_call[1].result) = 1
               THEN /\ Len(resolve_call) = 1
                    /\ resolve_call[1].conflict = detect_call[1].result[1]
                    /\ Len(Resolved) >= 1
                    /\ Resolved[Len(Resolved)] = resolve_call[1].result
               ELSE Len(resolve_call) = 1 =>
                        resolve_call[1].conflict.new_issue # detected_issues[k]
            /\ Extends(Processed', Processed)
            /\ Processed'[k].issue = detected_issues[k]
            /\ Processed'[k].mai_score = score_call[1].result.total_score
            /\ Processed'[k].routing.issue_id = detected_issues[k].id
            /\ Processed'[k].routing.mai_score = score_call[1].result.total_score
            /\ Resolved' = Resolved

\* the report returned: one entry for each of the first three detected
\* issues, in their order, and no more resolutions than entries
ReportShape ==
    Len(report) = 1 =>
        LET entries == report[1].issues_processed
            n == Min(Len(detected_issues), 3)
        IN  /\ Len(entries) = n
            /\ Len(decision_history) = n
            /\ \A i \in 1..n :
                  /\ entries[i].issue = detected_issues[i]
                  /\ entries[i].mai_score = decision_history[i].mai_score
                  /\ entries[i].routing.mai_score = entries[i].mai_score
            /\ Len(report[1].conflicts_resolved) <= n

\* C11: run_full_cycle handles the issues one at a time in input order, each
\* by score, then detect, then resolve only if a conflict was detected, then
\* route, and no issue is scored before the one before it is routed; the
\* cycle always ends with a report holding one {issue, score, routing} entry
\* for each processed issue in input order and at most one resolution for
\* each, whatever the collaborator calls do.
C11_OrderedPipeline ==
    /\ [][ScoreInOrder /\ DetectInOrder /\ ResolveInOrder /\ RouteInOrder]_vars
    /\ [](ReportShape)
    /\ <>(Len(report) = 1)

\* a cycle returned its report of three entries with every collaborator call
\* failing (the risk sub-score 8 is no reply's, only the fallback's) and
\* with a conflict resolved for two of the three issues
C11_Witness ==
    /\ Len(report) = 1
    /\ Len(report[1].issues_processed) = 3
    /\ Len(report[1].conflicts_resolved) = 2
    /\ score_call[1].replies = [mission |-> Raises, impact |-> Raises,
                                 risk |-> Raises]
    /\ \A i \in 1..Len(decision_history) :
          decision_history[i].breakdown.risk = 8

----------------------------------------------------------------------------
(* The scorer's decision_history, under SpecCycle *)

\* the breakdown of an MAIScore, as a history record holds it
BreakdownOf(score) ==
    [mission |-> score.mission_alignment,
     impact  |-> score.impact_growth,
     risk    |-> score.risk_evaluation]

\* a score call appends one record, of the issue scored and the sub-scores
\* returned, and leaves the records before it as they were; any other step
\* leaves the history as it was
HistoryAppendOnly ==
    IF score_call' # score_call
    THEN LET call == score_call'[1]
             record == decision_history'[Len(decision_history')]
         IN  /\ Extends(decision_history', decision_history)
             /\ record.issue_id = call.issue.id
             /\ record.breakdown = BreakdownOf(call.result)
             /\ record.mai_score = record.breakdown.mission
                                       + record.breakdown.impact
                                       + record.breakdown.risk
             /\ record.mai_score = call.result.total_score
    ELSE decision_history' = decision_history

\* detect_channel_conflict, execute_lightning_protocol and route_issue leave
\* the history as it was
OthersKeepHistory ==
    (\/ detect_call' # detect_call
     \/ resolve_call' # resolve_call
     \/ route_calls' # route_calls) => decision_history' = decision_history

\* the score calls completed: one for each issue routed, and one more while
\* the current issue is between its scoring and its routing
ScoreCallsCompleted ==
    Len(Processed) + (IF pc \in {"detect", "resolve", "route"} THEN 1 ELSE 0)

\* C12: decision_history is append-only: every score call, with sub-scores
\* from the collaborator or from the fallback, appends exactly one record of
\* the issue id, the three sub-scores returned and their sum; records are
\* never changed, reordered or removed; detect, resolve and route leave the
\* history unchanged; so its length is the number of completed score calls.
C12_HistoryAppendOnly ==
    /\ [][HistoryAppendOnly /\ OthersKeepHistory]_vars
    /\ [](Len(decision_history) = ScoreCallsCompleted)

\* a cycle has returned with three records in the history, the first of
\* sub-scores the collaborator gave, the second of fallback sub-scores, and
\* conflicts were detected, resolved and issues routed in between
C12_Witness ==
    /\ Len(report) = 1
    /\ Len(decision_history) = 3
    /\ decision_history[1].breakdown = [mission |-> 12, impact |-> 9, risk |-> 15]
    /\ decision_history[2].breakdown = [mission |-> 0, impact |-> 10, risk |-> 8]
    /\ Len(report[1].conflicts_resolved) >= 2
    /\ Cardinality(route_calls) = 3

----------------------------------------------------------------------------
(* Conflicts in the report of run_full_cycle, under SpecCycle *)

\* how far the wall clock moved between the datetime.now() the scheduled
\* time was built from and the datetime.now() it was compared with, in the
\* latest detect_channel_conflict call (the scheduled time is 2 hours after
\* the first)
MovedBetweenReadings == 2 * Hour - ScheduledAhead

\* the resolutions of a report match its entries one to one, and the action
\* is SEGMENT_AND_STAGGER exactly for the issues of high urgency
ResolutionsMatchEntries(rep) ==
    /\ Len(rep.conflicts_resolved) = Len(rep.issues_processed)
    /\ \A i \in 1..Len(rep.conflicts_resolved) :
          rep.conflicts_resolved[i].decision.action
              = (IF rep.issues_processed[i].issue.urgency = "high"
                 THEN "SEGMENT_AND_STAGGER" ELSE "DELAY_SECONDARY")

\* the clock readings a report holds never go back and span less than 4
\* hours: the start of the cycle, then the routing of each issue in turn
SteadyClock(rep) ==
    LET n == Len(rep.issues_processed)
        at(i) == IF i = 0 THEN rep.timestamp
                 ELSE rep.issues_processed[i].routing.decision_timestamp
    IN  /\ \A i \in 1..n : at(i - 1) <= at(i)
        /\ at(n) - at(0) < 4 * Hour

\* C13 as stated: detect_channel_conflict returns a conflict for every
\* issue, so every report of run_full_cycle has as many conflicts_resolved
\* as issues_processed, with the action SEGMENT_AND_STAGGER exactly for the
\* issues of high urgency.
C13_AlwaysConflict ==
    /\ Detected => Len(detect_call[1].result) = 1
    /\ Len(report) = 1 => ResolutionsMatchEntries(report[1])

\* C13 amended: detect_channel_conflict returns a conflict, against a
\* scheduled item of priority high, unless the wall clock is set back by 4
\* hours or more, or moves on by 8 hours or more, between its two readings;
\* each resolution's action is SEGMENT_AND_STAGGER exactly when the issue of
\* its conflict has urgency high; and a report of a cycle during which the
\* clock was not set has as many conflicts_resolved as issues_processed, the
\* i-th resolution being SEGMENT_AND_STAGGER exactly when the i-th issue has
\* urgency high.
C13_ConflictUnlessClockSet ==
    /\ Detected =>
          /\ detect_call[1].scheduled.priority = "high"
          /\ Len(detect_call[1].result) = 1 <=>
                 /\ MovedBetweenReadings > 0 - 4 * Hour
                 /\ MovedBetweenReadings < 8 * Hour
    /\ Len(resolve_call) = 1 =>
          (resolve_call[1].result.decision.action = "SEGMENT_AND_STAGGER"
               <=> resolve_call[1].conflict.new_issue.urgency = "high")
    /\ (Len(report) = 1 /\ SteadyClock(report[1])) =>
          ResolutionsMatchEntries(report[1])

\* a cycle during which the clock was not set has returned its report: three
\* entries and three resolutions, SEGMENT_AND_STAGGER for the first issue
\* (urgency high) and DELAY_SECONDARY for the other two (urgency medium)
C13_Witness ==
    /\ Len(report) = 1
    /\ SteadyClock(report[1])
    /\ Len(report[1].issues_processed) = 3
    /\ Len(report[1].conflicts_resolved) = 3
    /\ report[1].issues_processed[1].issue.urgency = "high"
    /\ report[1].conflicts_resolved[1].decision.action = "SEGMENT_AND_STAGGER"
    /\ report[1].issues_processed[2].issue.urgency = "medium"
    /\ report[1].conflicts_resolved[2].decision.action = "DELAY_SECONDARY"
    /\ report[1].conflicts_resolved[3].decision.action = "DELAY_SECONDARY"

====
